---- MODULE Spec2Model ----
(***************************************************************************)
(* Model of the Outlook mail tool: the CSVMailReader of outlook_parser.py  *)
(* (record table, sender frequency table, unwanted list and its file,      *)
(* export), the PSTMailReader load, and the two Dash callbacks of main.py  *)
(* (update_output, update_graphs).                                         *)
(*                                                                         *)
(* Text is a sequence of one-character strings, so that str.lower,         *)
(* str.endswith, slicing, str.strip, ','.join and str.split are computed   *)
(* as Python computes them.                                                *)
(***************************************************************************)
EXTENDS Integers, Sequences, FiniteSets, TLC

VARIABLES
    csv,            \* CSVMailReader.file: the table pd.read_csv returns for it
    df,             \* CSVMailReader.df: sequence of rows [index, Sender]
    senders_df,     \* CSVMailReader.senders_df: sequence of [Sender, Count]
    unwanted_list,  \* CSVMailReader.unwanted_list / PSTMailReader.unwanted_list
    unwanted_file,  \* content of data/unwanted.csv on disk, or NoFile, or
                    \* NoDir while the directory data/ does not exist
    file_path,      \* CSVMailReader.file_path, or NoAttr while the attribute is unset
    files,          \* paths that exist on disk (export targets)
    restarts,       \* how many times the program has been started again
    waiting,        \* <<sender>> while remove_sender_interactive waits at its
                    \* second prompt for that sender, <<>> otherwise
    last,           \* the last operation: its name, inputs and outcome
    upload,         \* the upload the browser sends to update_output
    status,         \* Output('file-upload-status', 'children')
    stored_data,    \* Output('stored-data', 'data')
    graphs,         \* what update_graphs last computed
    arg,            \* input of the pure function under check
    res             \* its result

vars == <<csv, df, senders_df, unwanted_list, unwanted_file, file_path,
          files, restarts, waiting, last, upload, status, stored_data, graphs, arg, res>>

readerVars == <<csv, df, senders_df, unwanted_list, unwanted_file,
                file_path, files, restarts, waiting>>
dashVars == <<upload, status, stored_data, graphs>>
pureVars == <<arg, res>>

----------------------------------------------------------------------------
(* Bounds of the model *)

MaxRows == 3
MaxRestarts == 2
MaxMsgs == 3
MaxPrefix == 2
MaxCount == 120

----------------------------------------------------------------------------
(* Python built-ins on text and numbers *)

Max(a, b) == IF a >= b THEN a ELSE b

Min(a, b) == IF a <= b THEN a ELSE b

\* The cased letters of ASCII and Latin-1: upper case, and the lower case
\* str.lower gives for each.  The texts of the model hold no cased letter
\* beyond Latin-1.
UpperCase == <<"A","B","C","D","E","F","G","H","I","J","K","L","M",
               "N","O","P","Q","R","S","T","U","V","W","X","Y","Z",
               "À","Á","Â","Ã","Ä","Å","Æ","Ç","È","É","Ê","Ë","Ì",
               "Í","Î","Ï","Ð","Ñ","Ò","Ó","Ô","Õ","Ö","Ø","Ù","Ú",
               "Û","Ü","Ý","Þ">>

LowerCase == <<"a","b","c","d","e","f","g","h","i","j","k","l","m",
               "n","o","p","q","r","s","t","u","v","w","x","y","z",
               "à","á","â","ã","ä","å","æ","ç","è","é","ê","ë","ì",
               "í","î","ï","ð","ñ","ò","ó","ô","õ","ö","ø","ù","ú",
               "û","ü","ý","þ">>

\* The characters str.strip() removes: every character str.isspace() holds
\* for.  One beyond Latin-1 is written by its code point.
Whitespace ==
    {" ", "\t", "\n", "", "\f", "\r", "", "", "", "",
     "", " ",
     "U+1680", "U+2000", "U+2001", "U+2002", "U+2003", "U+2004", "U+2005",
     "U+2006", "U+2007", "U+2008", "U+2009", "U+200A", "U+2028", "U+2029",
     "U+202F", "U+205F", "U+3000"}

\* The lower-case letter of each upper-case letter
LowerOf ==
    [c \in {UpperCase[i] : i \in DOMAIN UpperCase} |->
        LowerCase[CHOOSE i \in DOMAIN UpperCase : UpperCase[i] = c]]

\* str.lower on one character
LowerChar(c) == IF c \in DOMAIN LowerOf THEN LowerOf[c] ELSE c

\* str.lower
Lower(s) == [i \in 1..Len(s) |-> LowerChar(s[i])]

\* str.endswith
EndsWith(s, suffix) ==
    /\ Len(suffix) <= Len(s)
    /\ SubSeq(s, Len(s) - Len(suffix) + 1, Len(s)) = suffix

\* s[:-k] for k > 0: the first max(len(s) - k, 0) characters
DropLast(s, k) == SubSeq(s, 1, Max(Len(s) - k, 0))

\* str.strip: leading and trailing whitespace removed
Strip(s) ==
    LET inked == {i \in 1..Len(s) : s[i] \notin Whitespace}
    IN  IF inked = {} THEN <<>>
        ELSE SubSeq(s, CHOOSE i \in inked : \A j \in inked : i <= j,
                       CHOOSE i \in inked : \A j \in inked : i >= j)

\* ','.join(list)
RECURSIVE Join(_)
Join(list) ==
    IF list = <<>> THEN <<>>
    ELSE IF Len(list) = 1 THEN list[1]
    ELSE list[1] \o <<",">> \o Join(Tail(list))

\* text.split(','): always at least one piece, ''.split(',') == ['']
RECURSIVE Split(_)
Split(text) ==
    IF \A i \in 1..Len(text) : text[i] # ","
    THEN <<text>>
    ELSE LET c == CHOOSE i \in 1..Len(text) :
                     /\ text[i] = ","
                     /\ \A j \in 1..(i - 1) : text[j] # ","
         IN  <<SubSeq(text, 1, c - 1)>> \o Split(SubSeq(text, c + 1, Len(text)))

\* What open(path, 'r').read() gives for the content of a file: text mode
\* reads "\r\n" and a lone "\r" as "\n"
RECURSIVE ReadText(_)
ReadText(content) ==
    IF content = <<>> THEN <<>>
    ELSE IF Head(content) # "\r" THEN <<Head(content)>> \o ReadText(Tail(content))
    ELSE IF Len(content) >= 2 /\ content[2] = "\n"
         THEN <<"\n">> \o ReadText(SubSeq(content, 3, Len(content)))
         ELSE <<"\n">> \o ReadText(Tail(content))

\* x in list
InList(x, list) == \E i \in 1..Len(list) : list[i] = x

----------------------------------------------------------------------------
(* Values of the CSV reader *)

\* A missing sender cell: pd.read_csv gives NaN (a float) for an empty field.
\* Text is made of one-character strings, so no text equals this value.
NaN == <<"nan">>

\* os.path.exists(self.unwanted_file) is False
NoFile == <<"no file">>

\* The directory of self.unwanted_file does not exist: os.path.exists is
\* False as well, and open(self.unwanted_file, 'w') raises FileNotFoundError
NoDir == <<"no directory">>

\* The object has no attribute file_path
NoAttr == <<"no attribute">>

Teams == <<"t","e","a","m","s">>

\* teams_variants, in the order the loop tries them
teams_variants ==
    << <<"e","n"," ">> \o Teams,
       <<"i","n"," ">> \o Teams,
       <<"a","u","f"," ">> \o Teams,
       <<"s","u","r"," ">> \o Teams,
       <<"s","u"," ">> \o Teams >>

\* Sender names of the modelled mailbox
NameA == <<"A">>
NameBC == <<"B",",","C">>
NameATeams == <<"A"," ","e","n"," ","T","e","a","m","s">>

Senders == {NameA, NameBC, NameATeams, NaN}

\* Sender columns of the CSV files the reader is given
Tables ==
    UNION {[1..n -> Senders] : n \in 0..MaxRows}

\* __load_csv: one row per line, labelled by its position in the file
ReadCsv(cells) == [i \in 1..Len(cells) |-> [index |-> i, Sender |-> cells[i]]]

\* Contents data/unwanted.csv may have when the program starts
UnwantedFiles ==
    {NoFile, NoDir, NameA \o <<",">> \o NameATeams, NameA \o <<"\r", "\n">>}

\* What the user may type at the export prompt (blank for default)
OutCsv == <<"o","u","t",".","c","s","v">>
NewCsv == <<"n","e","w",".","c","s","v">>
ExportNames == {<<>>, OutCsv, NewCsv}

\* What the user may type at the two (y/n) prompts
Answers == {<<"y">>, <<"Y">>, <<"n">>}

----------------------------------------------------------------------------
(* CSVMailReader *)

\* __load_unwanted_list
LoadUnwanted(file) ==
    IF file \notin {NoFile, NoDir} THEN Split(ReadText(file)) ELSE <<>>

\* save_unwanted_list: the text written to the file (a text-mode write
\* leaves the text as it is where the line separator is "\n")
SaveUnwanted(list) == Join(list)

\* Whether open(self.unwanted_file, 'w') in save_unwanted_list raises
SaveRaises(file) == file = NoDir

\* What save_unwanted_list leaves on disk: nothing new when open raises
Saved(file, list) == IF SaveRaises(file) THEN file ELSE SaveUnwanted(list)

\* normalize_name for a text sender
NormalizeName(sender) ==
    LET hits == {i \in DOMAIN teams_variants :
                    EndsWith(Lower(sender), teams_variants[i])}
    IN  IF hits = {} THEN sender
        ELSE LET first == CHOOSE i \in hits : \A j \in hits : i <= j
             IN  Strip(DropLast(sender, Len(teams_variants[first]) + 1))

\* Series.apply(normalize_name) raises AttributeError on a float cell
NormalizeRaises(table) == \E i \in 1..Len(table) : table[i].Sender = NaN

NormalizeTable(table) ==
    [i \in 1..Len(table) |->
        [table[i] EXCEPT !.Sender = NormalizeName(table[i].Sender)]]

\* Series.value_counts(): missing values dropped, one entry per distinct
\* value, sorted by count descending; equal counts keep the order of first
\* appearance (the sort is an insertion sort at these sizes)
CountOf(table, s) == Cardinality({i \in 1..Len(table) : table[i].Sender = s})

FirstAt(table, s) ==
    CHOOSE i \in 1..Len(table) :
        /\ table[i].Sender = s
        /\ \A j \in 1..(i - 1) : table[j].Sender # s

ValueCounts(table) ==
    LET keys == {table[i].Sender : i \in 1..Len(table)} \ {NaN}
        count == [s \in keys |-> CountOf(table, s)]
        first == [s \in keys |-> FirstAt(table, s)]
        rank == [s \in keys |->
                    1 + Cardinality({t \in keys :
                            \/ count[t] > count[s]
                            \/ count[t] = count[s] /\ first[t] < first[s]})]
    IN  [r \in 1..Cardinality(keys) |->
            LET s == CHOOSE k \in keys : rank[k] = r
            IN  [Sender |-> s, Count |-> count[s]]]

\* Mutant: value_counts(dropna=False), a missing sender gets an entry too
ValueCountsKeepNa(table) ==
    LET keys == {table[i].Sender : i \in 1..Len(table)}
        count == [s \in keys |-> CountOf(table, s)]
        first == [s \in keys |-> FirstAt(table, s)]
        rank == [s \in keys |->
                    1 + Cardinality({t \in keys :
                            \/ count[t] > count[s]
                            \/ count[t] = count[s] /\ first[t] < first[s]})]
    IN  [r \in 1..Cardinality(keys) |->
            LET s == CHOOSE k \in keys : rank[k] = r
            IN  [Sender |-> s, Count |-> count[s]]]

\* update_senders
UpdateSenders(table) == ValueCounts(table)

\* Mutant: only the first row of the sender is dropped
DropSenderFirstMatch(table, sender_name) ==
    LET hits == {i \in 1..Len(table) : table[i].Sender = sender_name}
    IN  IF hits = {} THEN table
        ELSE LET h == CHOOSE i \in hits : \A j \in hits : i <= j
             IN  SubSeq(table, 1, h - 1) \o SubSeq(table, h + 1, Len(table))

\* self.df[self.df['De: (nombre)'] != sender_name]
DropSender(table, sender_name) ==
    SelectSeq(table, LAMBDA row : row.Sender # sender_name)

\* sender in self.senders_df['Sender'].values
InSenders(sender, sdf) == \E i \in 1..Len(sdf) : sdf[i].Sender = sender

\* Mutant: the loop stops after the first sender it removes
ApplyUnwantedOnce(table, sdf, list) ==
    LET hits == {i \in 1..Len(list) : \E k \in 1..Len(sdf) :
                    sdf[k].Sender = list[i]}
    IN  IF hits = {} THEN [df |-> table, senders_df |-> sdf]
        ELSE LET h == CHOOSE i \in hits : \A j \in hits : i <= j
                 t == SelectSeq(table, LAMBDA row : row.Sender # list[h])
             IN  [df |-> t, senders_df |-> ValueCounts(t)]

\* The loop of load_unwanted_list over the entries of the list: each sender
\* present in the frequency table is removed and the table recomputed
RECURSIVE ApplyUnwanted(_, _, _)
ApplyUnwanted(table, sdf, list) ==
    IF list = <<>> THEN [df |-> table, senders_df |-> sdf]
    ELSE IF InSenders(Head(list), sdf)
         THEN LET t == DropSender(table, Head(list))
              IN  ApplyUnwanted(t, UpdateSenders(t), Tail(list))
         ELSE ApplyUnwanted(table, sdf, Tail(list))

\* str(count)
Digits == <<"0","1","2","3","4","5","6","7","8","9">>

RECURSIVE Str(_)
Str(n) == IF n < 10 THEN <<Digits[n + 1]>>
          ELSE Str(n \div 10) \o <<Digits[(n % 10) + 1]>>

\* os.path.splitext: the extension starts at the last dot of the last path
\* component, unless that dot leads the component
Splitext(path) ==
    LET seps == {i \in 1..Len(path) : path[i] = "/"}
        start == IF seps = {} THEN 1
                 ELSE 1 + CHOOSE i \in seps : \A j \in seps : i >= j
        dots == {i \in start..Len(path) :
                    /\ path[i] = "."
                    /\ \E j \in start..(i - 1) : path[j] # "."}
    IN  IF dots = {} THEN [base |-> path, ext |-> <<>>]
        ELSE LET d == CHOOSE i \in dots : \A j \in dots : i >= j
             IN  [base |-> SubSeq(path, 1, d - 1),
                  ext |-> SubSeq(path, d, Len(path))]

Modified == <<"_","m","o","d","i","f","i","e","d">>

\* The while loop of export_changes, entered with count
RECURSIVE NextFree(_, _, _, _, _)
NextFree(output_file, base, ext, count, disk) ==
    IF output_file \in disk
    THEN NextFree(base \o Modified \o <<"(">> \o Str(count) \o <<")">> \o ext,
                  base, ext, count + 1, disk)
    ELSE output_file

\* The default name of export_changes
DefaultOutputFile(path, disk) ==
    LET se == Splitext(path)
    IN  NextFree(se.base \o Modified \o se.ext, se.base, se.ext, 1, disk)

----------------------------------------------------------------------------------------------------------------------------------------
(* Operations of CSVMailReader.  last records the call that led to the     *)
(* state: its name and inputs, whether it raised, how many rows it removed, *)
(* whether it appended to the unwanted list and saved it, and the path it   *)
(* wrote.                                                                   *)

Call(op) ==
    [op |-> op, name |-> <<>>, confirmation |-> <<>>,
     add_to_unwanted |-> <<>>, raised |-> FALSE, path |-> <<>>,
     removed |-> 0, appended |-> FALSE, repeats |-> ""]

\* The state __init__ leaves: file read, unwanted list loaded, senders counted
Constructed(cells, file) ==
    [df |-> ReadCsv(cells),
     unwanted_list |-> LoadUnwanted(file),
     senders_df |-> UpdateSenders(ReadCsv(cells))]

Idle == "idle"

\* Variables of the parts a specification leaves out stay idle
IdleReader ==
    /\ csv = Idle /\ df = Idle /\ senders_df = Idle /\ unwanted_list = Idle
    /\ unwanted_file = Idle /\ file_path = Idle /\ files = Idle
    /\ restarts = Idle /\ waiting = Idle

IdleDash ==
    upload = Idle /\ status = Idle /\ stored_data = Idle /\ graphs = Idle

IdlePure == arg = Idle /\ res = Idle

InitReader ==
    /\ csv \in Tables
    /\ unwanted_file \in UnwantedFiles
    /\ df = Constructed(csv, unwanted_file).df
    /\ unwanted_list = Constructed(csv, unwanted_file).unwanted_list
    /\ senders_df = Constructed(csv, unwanted_file).senders_df
    /\ file_path = NoAttr
    /\ files = {}
    /\ restarts = 0
    /\ waiting = <<>>
    /\ last = Call("__init__")
    /\ IdleDash /\ IdlePure

\* CSVMailReader(file): a new reader over the same CSV file, as when the
\* program is started again.  The program is started again at most
\* MaxRestarts times.
Construct ==
    /\ waiting = <<>>
    /\ restarts < MaxRestarts
    /\ restarts' = restarts + 1
    /\ LET reader == Constructed(csv, unwanted_file)
       IN  /\ df' = reader.df
           /\ unwanted_list' = reader.unwanted_list
           /\ senders_df' = reader.senders_df
    /\ file_path' = NoAttr
    /\ last' = Call("__init__")
    /\ UNCHANGED <<csv, unwanted_file, files, waiting>>
    /\ UNCHANGED <<dashVars, pureVars>>

\* normalize_senders
NormalizeSenders ==
    /\ waiting = <<>>
    /\ IF NormalizeRaises(df)
       THEN /\ last' = [Call("normalize_senders") EXCEPT !.raised = TRUE]
            /\ UNCHANGED <<df, senders_df>>
       ELSE /\ df' = NormalizeTable(df)
            /\ senders_df' = UpdateSenders(df')
            /\ last' = Call("normalize_senders")
    /\ UNCHANGED <<csv, unwanted_list, unwanted_file, file_path, files, restarts,
                   waiting>>
    /\ UNCHANGED <<dashVars, pureVars>>

\* remove_sender(sender_name)
RemoveSender(sender_name) ==
    /\ waiting = <<>>
    /\ df' = DropSender(df, sender_name)
    /\ senders_df' = UpdateSenders(df')
    /\ last' = [Call("remove_sender") EXCEPT
                   !.name = sender_name,
                   !.removed = Len(df) - Len(df')]
    /\ UNCHANGED <<csv, unwanted_list, unwanted_file, file_path, files, restarts,
                   waiting>>
    /\ UNCHANGED <<dashVars, pureVars>>

\* self.senders_df.iloc[sender_idx - 1]['Sender'], for the positions
\* 1 <= sender_idx <= len(senders_df) that show_menu lets through
Iloc(sdf, sender_idx) == sdf[(sender_idx - 1) + 1].Sender

\* remove_sender_interactive(sender_idx) up to its second prompt: the first
\* answer is read; after a yes the sender is removed and the call waits for
\* the second answer, after anything else the call ends
RemoveSenderInteractive(sender_idx, confirmation) ==
    LET sender_to_remove == Iloc(senders_df, sender_idx)
        call == [Call("remove_sender_interactive") EXCEPT
                    !.name = sender_to_remove,
                    !.confirmation = confirmation]
    IN
    /\ waiting = <<>>
    /\ IF Lower(confirmation) = <<"y">>
       THEN /\ df' = DropSender(df, sender_to_remove)
            /\ senders_df' = UpdateSenders(df')
            /\ waiting' = <<sender_to_remove>>
            /\ last' = [call EXCEPT !.removed = Len(df) - Len(df')]
       ELSE /\ last' = call
            /\ UNCHANGED <<df, senders_df, waiting>>
    /\ UNCHANGED <<csv, unwanted_list, unwanted_file, file_path, files,
                   restarts>>
    /\ UNCHANGED <<dashVars, pureVars>>

\* Mutant: the sender is added whatever the second answer is
AppendsUnasked(sender_to_remove, add_to_unwanted, list) ==
    ~InList(sender_to_remove, list)

\* Whether remove_sender_interactive appends to the unwanted list
Appends(sender_to_remove, add_to_unwanted, list) ==
    /\ Lower(add_to_unwanted) = <<"y">>
    /\ ~InList(sender_to_remove, list)

\* The rest of remove_sender_interactive: the second answer is read; after a
\* yes a sender not yet listed is appended and the list saved.  When the
\* save raises, the sender stays appended in memory and nothing is written.
AddToUnwanted(add_to_unwanted) ==
    /\ waiting # <<>>
    /\ IF Appends(waiting[1], add_to_unwanted, unwanted_list)
       THEN /\ unwanted_list' = Append(unwanted_list, waiting[1])
            /\ unwanted_file' = Saved(unwanted_file, unwanted_list')
            /\ last' = [last EXCEPT !.add_to_unwanted = add_to_unwanted,
                                    !.appended = TRUE,
                                    !.raised = SaveRaises(unwanted_file)]
       ELSE /\ last' = [last EXCEPT !.add_to_unwanted = add_to_unwanted]
            /\ UNCHANGED <<unwanted_list, unwanted_file>>
    /\ waiting' = <<>>
    /\ UNCHANGED <<csv, df, senders_df, file_path, files, restarts>>
    /\ UNCHANGED <<dashVars, pureVars>>

\* save_unwanted_list, called on its own
SaveUnwantedList ==
    /\ waiting = <<>>
    /\ unwanted_file' = Saved(unwanted_file, unwanted_list)
    /\ last' = [Call("save_unwanted_list") EXCEPT
                   !.raised = SaveRaises(unwanted_file)]
    /\ UNCHANGED <<csv, df, senders_df, unwanted_list, file_path, files, restarts,
                   waiting>>
    /\ UNCHANGED <<dashVars, pureVars>>

\* load_unwanted_list
LoadUnwantedList ==
    /\ waiting = <<>>
    /\ LET kept == ApplyUnwanted(df, senders_df, unwanted_list)
       IN  /\ df' = kept.df
           /\ senders_df' = kept.senders_df
    /\ last' = [Call("load_unwanted_list") EXCEPT
                   !.removed = Len(df) - Len(df'),
                   !.repeats = IF last.op # "load_unwanted_list" THEN ""
                               ELSE IF last.removed > 0 THEN "a removal"
                               ELSE "no removal"]
    /\ UNCHANGED <<csv, unwanted_list, unwanted_file, file_path, files, restarts,
                   waiting>>
    /\ UNCHANGED <<dashVars, pureVars>>

\* The path export_changes writes to; a blank name takes the default branch
ExportTarget(output_file, path, disk) ==
    IF output_file = <<>> THEN DefaultOutputFile(path, disk) ELSE output_file

\* export_changes(output_file): the default branch reads self.file_path,
\* which raises AttributeError while the attribute is unset
ExportChanges(output_file) ==
    /\ waiting = <<>>
    /\ IF output_file = <<>> /\ file_path = NoAttr
       THEN /\ last' = [Call("export_changes") EXCEPT !.name = output_file,
                                                      !.raised = TRUE]
            /\ UNCHANGED files
       ELSE /\ files' = files \cup {ExportTarget(output_file, file_path, files)}
            /\ last' = [Call("export_changes") EXCEPT
                          !.name = output_file,
                          !.path = ExportTarget(output_file, file_path, files)]
    /\ UNCHANGED <<csv, df, senders_df, unwanted_list, unwanted_file,
                   file_path, restarts, waiting>>
    /\ UNCHANGED <<dashVars, pureVars>>

NextReader ==
    \/ NormalizeSenders
    \/ \E name \in {csv[i] : i \in 1..Len(csv)} \ {NaN} : RemoveSender(name)
    \/ \E idx \in 1..Len(senders_df), c \in Answers :
          RemoveSenderInteractive(idx, c)
    \/ \E a \in Answers : AddToUnwanted(a)
    \/ SaveUnwantedList
    \/ LoadUnwantedList

NextExport ==
    \E name \in ExportNames : ExportChanges(name)

\* Saving the unwanted list and starting the program again
NextPersist ==
    \/ Construct
    \/ \E idx \in 1..Len(senders_df), c \in Answers :
          RemoveSenderInteractive(idx, c)
    \/ \E a \in Answers : AddToUnwanted(a)
    \/ SaveUnwantedList

\* One reader under its operations
Spec == InitReader /\ [][NextReader]_vars

\* The unwanted file across restarts of the program
SpecPersist == InitReader /\ [][NextPersist]_vars

\* The reader under the menu's export option
SpecExport == InitReader /\ [][NextExport]_vars

----------------
(* Dates.  A day is counted from 2024-01-01 (day 0, a Monday); a delivery  *)
(* time is a day and a minute of that day.                                 *)

\* pd.Timestamp.min and pd.Timestamp.max as days: 1677-09-21, 2262-04-11
TsMinDay == -126475
TsMaxDay == 87028

\* The first whole minute of the first day (00:12:43.145 rounded up) and the
\* last whole minute of the last day (23:47:16.854 rounded down)
TsMinMinute == 13
TsMaxMinute == 1427

\* Whether a day and minute lie within pd.Timestamp.min .. pd.Timestamp.max
InTsRange(day, minute) ==
    /\ day > TsMinDay \/ (day = TsMinDay /\ minute >= TsMinMinute)
    /\ day < TsMaxDay \/ (day = TsMaxDay /\ minute <= TsMaxMinute)

\* The last days of January .. April 2024
MonthEnds == <<30, 59, 90, 120>>

\* pd.to_datetime("13:30").time() as a minute of the day
after_hours_time == 810

DateTime(day, minute) == [kind |-> "datetime", day |-> day, minute |-> minute]

\* delivery_time is None
NoneDate == [kind |-> "None", day |-> 0, minute |-> 0]

\* A missing timestamp
NaT == [kind |-> "NaT", day |-> 0, minute |-> 0]

\* datetime.min (0001-01-01 00:00), what a store gives for an unset time
MinDate == DateTime(-738885, 0)

\* Sun 2024-01-28 10:00, Mon 2024-01-29 13:30, Fri 2024-03-15 14:00
MailDates == {DateTime(27, 600), DateTime(28, 810), DateTime(74, 840)}

Dates == MailDates \cup {NoneDate, MinDate}

\* a < b on datetime objects
DateLess(a, b) ==
    a.day < b.day \/ (a.day = b.day /\ a.minute < b.minute)

\* pd.to_datetime(value, errors='coerce') on a JSON cell: null and
\* timestamps outside the nanosecond range become NaT
ToDatetime(cell) ==
    IF cell.kind # "datetime" THEN NaT
    ELSE IF ~InTsRange(cell.day, cell.minute) THEN NaT
    ELSE cell

\* The label of the bin a day falls in: 'D' the day, 'W' the Sunday that
\* ends its week, 'M' the last day of its month
MonthEnd(day) ==
    MonthEnds[CHOOSE i \in DOMAIN MonthEnds :
                /\ MonthEnds[i] >= day
                /\ \A j \in DOMAIN MonthEnds : MonthEnds[j] >= day => i <= j]

BinLabel(time_period, day) ==
    CASE time_period = "D" -> day
      [] time_period = "W" -> day + (6 - (day % 7))
      [] time_period = "M" -> MonthEnd(day)

\* The label after a label
NextLabel(time_period, label) ==
    CASE time_period = "D" -> label + 1
      [] time_period = "W" -> label + 7
      [] time_period = "M" -> MonthEnd(label + 1)

\* Mutant: the range of labels stops before the last one
RECURSIVE LabelsBeforeLast(_, _, _)
LabelsBeforeLast(time_period, from, to) ==
    IF from >= to THEN <<>>
    ELSE <<from>> \o LabelsBeforeLast(time_period,
                                      NextLabel(time_period, from), to)

RECURSIVE Labels(_, _, _)
Labels(time_period, from, to) ==
    IF from > to THEN <<>>
    ELSE <<from>> \o Labels(time_period, NextLabel(time_period, from), to)

\* df.resample(time_period, on Date).size(): one bin per period from the
\* earliest to the latest date, empty bins included, each with its row count
Resample(time_period, rows) ==
    IF rows = <<>> THEN <<>>
    ELSE LET days == {rows[i].Date.day : i \in 1..Len(rows)}
             lo == CHOOSE d \in days : \A e \in days : d <= e
             hi == CHOOSE d \in days : \A e \in days : d >= e
             labels == Labels(time_period, BinLabel(time_period, lo),
                              BinLabel(time_period, hi))
         IN  [b \in 1..Len(labels) |->
                [Date |-> labels[b],
                 Count |-> Cardinality({i \in 1..Len(rows) :
                     BinLabel(time_period, rows[i].Date.day) = labels[b]})]]

\* df_grouped["Count"].max(); NaN for no rows
MaxOfCounts(grouped) ==
    CHOOSE m \in {grouped[i].Count : i \in 1..Len(grouped)} :
        \A i \in 1..Len(grouped) : grouped[i].Count <= m

\* Mutant: no headroom above the largest count
YAxisNoHeadroom(max_count) ==
    Max(10 * max_count, Max(200, Min(1000, 12 * max_count)))

\* max(max_count + 10, max(20, min(100, max_count * 1.2))), in tenths
YAxisUpperLimit(max_count) ==
    Max(10 * (max_count + 10), Max(200, Min(1000, 12 * max_count)))

\* The limit for a table of bins: NaN when there is no bin, as
\* max(nan, 100) is nan
YAxisOf(grouped) ==
    IF grouped = <<>> THEN [nan |-> TRUE, tenths |-> 0]
    ELSE [nan |-> FALSE, tenths |-> YAxisUpperLimit(MaxOfCounts(grouped))]

RECURSIVE SumCounts(_)
SumCounts(grouped) ==
    IF grouped = <<>> THEN 0
    ELSE Head(grouped).Count + SumCounts(Tail(grouped))

\* df_avg: the mean as (total, bins); one entry for 'M', else one per
\* calendar month of the bin labels
Averages(time_period, grouped) ==
    IF time_period = "M"
    THEN <<[Interval |-> "Month", total |-> SumCounts(grouped),
            bins |-> Len(grouped)]>>
    ELSE LET months == {MonthEnd(grouped[i].Date) : i \in 1..Len(grouped)}
             ofMonth(m) == SelectSeq(grouped, LAMBDA g : MonthEnd(g.Date) = m)
             order == Labels("M", IF months = {} THEN 1
                                  ELSE CHOOSE m \in months :
                                           \A n \in months : m <= n,
                                  IF months = {} THEN 0
                                  ELSE CHOOSE m \in months :
                                           \A n \in months : m >= n)
             present == SelectSeq(order, LAMBDA m : m \in months)
         IN  [k \in 1..Len(present) |->
                [Interval |-> present[k],
                 total |-> SumCounts(ofMonth(present[k])),
                 bins |-> Len(ofMonth(present[k]))]]

----------------------------------------------------------------------------
(* PSTMailReader and the Dash callbacks *)

\* What the store of an uploaded file holds: messages of the inbox folder
Messages ==
    UNION {[1..n -> [Sender : {NameA, NameBC}, Date : Dates]] :
              n \in 0..MaxMsgs}

\* What the browser may send: no contents, contents that do not split into
\* two parts at a comma, contents that are not base64, or the bytes of a
\* file, which the PST library cannot open, or opens without the folder
\* "Bandeja de entrada", or opens with that folder
Uploads ==
    {[contents |-> k, pst |-> "ok", count |-> 0, messages |-> <<>>] :
        k \in {"None", "no comma", "not base64"}}
    \cup {[contents |-> "ok", pst |-> "corrupt", count |-> 0,
           messages |-> <<>>]}
    \cup {[contents |-> "ok", pst |-> "no folder", count |-> c,
           messages |-> <<>>] : c \in {0, 2}}
    \cup {[contents |-> "ok", pst |-> "ok", count |-> Len(m),
           messages |-> m] : m \in Messages}

Columns == <<"Sender", "Subject", "Date">>

\* pd.DataFrame(): no columns, no rows
EmptyFrame == [columns |-> <<>>, rows |-> <<>>]

\* pd.DataFrame(data): no columns either when data is empty
Frame(data) == IF data = <<>> THEN EmptyFrame
               ELSE [columns |-> Columns, rows |-> data]

\* sorted(data, key=Date, reverse=True) raises TypeError when a None is
\* compared, which happens once there are two entries
SortRaises(data) ==
    /\ Len(data) >= 2
    /\ \E i \in 1..Len(data) : data[i].Date.kind = "None"

\* sorted(data, key=Date, reverse=True): latest first, equal dates in their
\* original order
SortedByDateDesc(data) ==
    LET place(i) == 1 + Cardinality({j \in 1..Len(data) :
                        \/ DateLess(data[i].Date, data[j].Date)
                        \/ data[j].Date = data[i].Date /\ j < i})
    IN  [p \in 1..Len(data) |->
            data[CHOOSE i \in 1..Len(data) : place(i) = p]]

\* The loop of __load_pst: one entry per message whose sender is not unwanted
Extract(messages, list) ==
    SelectSeq([i \in 1..Len(messages) |->
                  [Sender |-> messages[i].Sender, Subject |-> i,
                   Date |-> messages[i].Date]],
              LAMBDA e : ~InList(e.Sender, list))

\* Whether the try block of __load_pst raises: the file does not open, the
\* folder is missing and there are items to fetch, or the sort fails
LoadPstRaises(up, list) ==
    \/ up.pst = "corrupt"
    \/ up.pst = "no folder" /\ up.count > 0
    \/ up.pst = "ok" /\ SortRaises(Extract(up.messages, list))

\* __load_pst: the table, or an empty DataFrame after an exception
LoadPst(up, list) ==
    IF LoadPstRaises(up, list) THEN EmptyFrame
    ELSE IF up.pst = "no folder" THEN Frame(<<>>)
    ELSE Frame(SortedByDateDesc(Extract(up.messages, list)))

\* df.to_json(date_format='iso', orient='split')
ToJson(frame) ==
    [columns |-> frame.columns,
     index |-> [i \in 1..Len(frame.rows) |-> i - 1],
     data |-> frame.rows]

\* pd.read_json(data, orient='split')
ReadJson(json) == [columns |-> json.columns, rows |-> json.data]

Uploaded == "uploaded successfully"
Failed == "failed to upload"

\* What update_output returns for an upload with contents
Output(up, list) ==
    IF up.contents # "ok" THEN [status |-> <<Failed>>, data |-> <<>>]
    ELSE [status |-> <<Uploaded>>, data |-> <<ToJson(LoadPst(up, list))>>]

\* Contents data/unwanted.csv may have when a file is uploaded: none, or
\* two names and a line break after them
PstUnwantedFiles ==
    {NoFile, NameA \o <<",">> \o NameATeams \o <<"\r", "\n">>}

InitDash ==
    /\ upload \in Uploads
    /\ unwanted_file \in PstUnwantedFiles
    /\ unwanted_list = <<>>
    /\ status = <<>>
    /\ stored_data = <<>>
    /\ graphs = <<>>
    /\ last = [op |-> "start", raised |-> FALSE, load_raised |-> FALSE,
               time_period |-> ""]
    /\ csv = Idle /\ df = Idle /\ senders_df = Idle
    /\ file_path = Idle /\ files = Idle /\ restarts = Idle /\ waiting = Idle
    /\ IdlePure

\* update_output(file_contents, filename)
UpdateOutput ==
    /\ IF upload.contents = "None"
       THEN /\ last' = [op |-> "update_output", raised |-> TRUE,
                        load_raised |-> FALSE, time_period |-> ""]
            /\ UNCHANGED <<status, stored_data, unwanted_list>>
       ELSE /\ unwanted_list' = IF upload.contents = "ok"
                                THEN LoadUnwanted(unwanted_file)
                                ELSE unwanted_list
            /\ status' = Output(upload, unwanted_list').status
            /\ stored_data' = Output(upload, unwanted_list').data
            /\ last' = [op |-> "update_output", raised |-> FALSE,
                        load_raised |->
                            /\ upload.contents = "ok"
                            /\ LoadPstRaises(upload, unwanted_list'),
                        time_period |-> ""]
    /\ UNCHANGED <<upload, graphs, unwanted_file>>
    /\ UNCHANGED <<csv, df, senders_df, file_path, files, restarts, waiting,
                   pureVars>>

\* The rows update_graphs keeps: Date parsed, rows without a date dropped
ParsedRows(frame) ==
    SelectSeq([i \in 1..Len(frame.rows) |->
                  [frame.rows[i] EXCEPT !.Date = ToDatetime(frame.rows[i].Date)]],
              LAMBDA r : r.Date # NaT)

\* df[df["Date"].dt.time > after_hours_time]
AfterHours(rows) == SelectSeq(rows, LAMBDA r : r.Date.minute > after_hours_time)

\* The figures update_graphs builds from the stored table
Figures(frame, time_period) ==
    LET rows == ParsedRows(frame)
        df_grouped == Resample(time_period, rows)
        df_after_hours_grouped == Resample("D", AfterHours(rows))
    IN  [time_period |-> time_period,
         df_grouped |-> df_grouped,
         yaxis_upper_limit |-> YAxisOf(df_grouped),
         df_avg |-> Averages(time_period, df_grouped),
         df_after_hours_grouped |-> df_after_hours_grouped]

\* update_graphs(data, time_period): PreventUpdate without data, KeyError
\* for a table without a Date column
UpdateGraphs(time_period) ==
    /\ IF stored_data = <<>> \/ ReadJson(stored_data[1]).columns = <<>>
       THEN /\ last' = [op |-> "update_graphs", raised |-> TRUE,
                        load_raised |-> FALSE, time_period |-> time_period]
            /\ UNCHANGED graphs
       ELSE /\ graphs' = <<Figures(ReadJson(stored_data[1]), time_period)>>
            /\ last' = [op |-> "update_graphs", raised |-> FALSE,
                        load_raised |-> FALSE, time_period |-> time_period]
    /\ UNCHANGED <<upload, status, stored_data, unwanted_list, unwanted_file>>
    /\ UNCHANGED <<csv, df, senders_df, file_path, files, restarts, waiting,
                   pureVars>>

NextDash ==
    \/ UpdateOutput
    \/ \E time_period \in {"M", "W", "D"} : UpdateGraphs(time_period)

\* The dashboard: one upload, then the period dropdown
SpecDash == InitDash /\ [][NextDash]_vars

----------------------------------------------------------------------------
(* The two pure computations on inputs of their own *)

\* str.upper, for the modelled inputs
Upper(s) ==
    [i \in 1..Len(s) |->
        IF \E k \in DOMAIN LowerCase : LowerCase[k] = s[i]
        THEN UpperCase[CHOOSE k \in DOMAIN LowerCase : LowerCase[k] = s[i]]
        ELSE s[i]]

PrefixChars == {"K", "a", " ", "É", " "}

Prefixes == UNION {[1..n -> PrefixChars] : n \in 0..MaxPrefix}

Variants == {teams_variants[i] : i \in DOMAIN teams_variants}

Endings ==
    Variants \cup {Upper(v) : v \in Variants}
    \cup {<<>>, Teams, <<"e","n"," ","t","e","a","m">>}

NameKaren == <<"K","a","r","e","n"," ","T","e","a","m","s">>

\* Sender names given to normalize_name
NormInputs ==
    {p \o sep \o e : p \in Prefixes, sep \in {<<>>, <<" ">>}, e \in Endings}
    \cup {NameKaren}

InitNormalize ==
    /\ arg \in NormInputs
    /\ res = <<>>
    /\ last = [op |-> "input"]
    /\ IdleReader /\ IdleDash

\* normalize_name(sender)
NormalizeNameCall ==
    /\ last.op = "input"
    /\ res' = NormalizeName(arg)
    /\ last' = [op |-> "normalize_name"]
    /\ UNCHANGED <<arg, readerVars, dashVars>>

SpecNormalize == InitNormalize /\ [][NormalizeNameCall]_vars

InitYAxis ==
    /\ arg \in 0..MaxCount
    /\ res = 0
    /\ last = [op |-> "input"]
    /\ IdleReader /\ IdleDash

\* The limit update_graphs computes for a largest bin of arg rows
YAxisCall ==
    /\ last.op = "input"
    /\ res' = YAxisUpperLimit(arg)
    /\ last' = [op |-> "yaxis_upper_limit"]
    /\ UNCHANGED <<arg, readerVars, dashVars>>

SpecYAxis == InitYAxis /\ [][YAxisCall]_vars

----------------------------------------------------------------------------
(* Properties of the CSV reader *)

RowsOf(table) == {table[i] : i \in 1..Len(table)}

PlaceIn(table, row) == CHOOSE k \in 1..Len(table) : table[k] = row

RowsWith(table, sender) == {i \in 1..Len(table) : table[i].Sender = sender}

\* after holds exactly the rows of before whose sender is not name, each
\* once and in the order of before
OthersKept(before, after, name) ==
    /\ RowsOf(after) = {r \in RowsOf(before) : r.Sender # name}
    /\ Cardinality(RowsOf(after)) = Len(after)
    /\ \A i, j \in 1..Len(after) :
          i < j => PlaceIn(before, after[i]) < PlaceIn(before, after[j])

\* sdf has one entry per sender name of table, with the number of its rows
CountsSenders(table, sdf) ==
    /\ \A k \in 1..Len(sdf) :
          /\ sdf[k].Sender # NaN
          /\ sdf[k].Count >= 1
          /\ sdf[k].Count = Cardinality(RowsWith(table, sdf[k].Sender))
    /\ \A k, m \in 1..Len(sdf) : sdf[k].Sender = sdf[m].Sender => k = m
    /\ \A i \in 1..Len(table) :
          table[i].Sender # NaN =>
              \E k \in 1..Len(sdf) : sdf[k].Sender = table[i].Sender

RECURSIVE SumOfCounts(_)
SumOfCounts(sdf) ==
    IF sdf = <<>> THEN 0 ELSE Head(sdf).Count + SumOfCounts(Tail(sdf))

SaidYes(answer) == answer \in {<<"y">>, <<"Y">>}

\* C1: after remove_sender(name) the table holds exactly the rows whose
\* sender is not name, unchanged and in their order, and the frequency
\* table gives each remaining sender name its number of remaining rows.
RemoveSenderExact ==
    [][last'.op = "remove_sender" =>
          /\ OthersKept(df, df', last'.name)
          /\ CountsSenders(df', senders_df')]_vars

\* A removal that drops two rows of the sender and keeps another row
RemoveSenderExactWitness ==
    /\ last.op = "remove_sender"
    /\ last.removed >= 2
    /\ Len(df) >= 1

\* C2: a second load_unwanted_list in a row leaves the record table and
\* the frequency table as the first call left them.
LoadUnwantedIdempotent ==
    [][(last.op = "load_unwanted_list" /\ last'.op = "load_unwanted_list") =>
          /\ df' = df
          /\ senders_df' = senders_df]_vars

\* A second call in a row, after a first call that removed rows
LoadUnwantedIdempotentWitness ==
    /\ last.op = "load_unwanted_list"
    /\ last.repeats = "a removal"
    /\ Len(df) >= 1

\* C6: remove_sender_interactive changes the tables only after a yes to the
\* confirmation and the unwanted list and file only after a yes to both
\* prompts (an answer counts as yes in either case, the code lower-cases
\* it), also when the save raises and only the list in memory changes;
\* after another first answer nothing changes and no second prompt follows;
\* load_unwanted_list stops at no prompt and leaves no row of a listed
\* sender.
InteractiveNeedsConfirmation ==
    [][/\ last'.op = "remove_sender_interactive" =>
             /\ (df' # df \/ senders_df' # senders_df)
                   => SaidYes(last'.confirmation)
             /\ (unwanted_list' # unwanted_list \/ unwanted_file' # unwanted_file)
                   => /\ SaidYes(last'.confirmation)
                      /\ SaidYes(last'.add_to_unwanted)
             /\ ~SaidYes(last'.confirmation) =>
                   /\ UNCHANGED <<df, senders_df, unwanted_list, unwanted_file>>
                   /\ waiting' = <<>>
             /\ waiting' # <<>> => UNCHANGED <<unwanted_list, unwanted_file>>
       /\ last'.op = "load_unwanted_list" =>
             /\ waiting = <<>> /\ waiting' = <<>>
             /\ \A i \in 1..Len(df') : ~InList(df'[i].Sender, unwanted_list')
      ]_vars

\* Both prompts answered yes: rows removed, sender appended and saved
InteractiveNeedsConfirmationWitness ==
    /\ last.op = "remove_sender_interactive"
    /\ waiting = <<>>
    /\ SaidYes(last.confirmation) /\ SaidYes(last.add_to_unwanted)
    /\ last.removed >= 1
    /\ last.appended /\ ~last.raised
    /\ unwanted_file = SaveUnwanted(unwanted_list)

\* C9: the list a newly constructed reader loads after save_unwanted_list
\* wrote the file is the list that was saved.
UnwantedListSurvives ==
    [][(/\ last'.op = "__init__"
        /\ last.op = "save_unwanted_list" \/ last.appended
        /\ ~last.raised) =>
          unwanted_list' = unwanted_list]_vars

\* C10 as amended: the frequency table has exactly one entry per distinct
\* sender name in the records, each with the number of rows of that sender,
\* and the counts sum to the number of rows that have a sender (a row whose
\* sender is missing is counted in no entry).
FrequencyTableConsistent ==
    /\ CountsSenders(df, senders_df)
    /\ SumOfCounts(senders_df) =
          Cardinality({i \in 1..Len(df) : df[i].Sender # NaN})

\* A removal through the unwanted list that leaves a row without a sender
\* beside rows with one
FrequencyTableConsistentWitness ==
    /\ last.op = "load_unwanted_list"
    /\ last.removed >= 1
    /\ \E i \in 1..Len(df) : df[i].Sender = NaN
    /\ Len(senders_df) >= 1

\* C10 as stated: ... and the counts sum to the number of rows.
FrequencyTableCountsAllRows ==
    /\ CountsSenders(df, senders_df)
    /\ SumOfCounts(senders_df) = Len(df)

\* C3: export never overwrites: every export_changes call that writes,
\* under the default or a typed name, writes to a path that did not exist
\* before the call.
ExportNeverOverwrites ==
    [][(last'.op = "export_changes" /\ ~last'.raised) =>
          last'.path \notin files]_vars

----------------------------------------------------------------------------
(* Properties of normalize_name *)

\* str.rstrip
RStrip(s) ==
    LET inked == {i \in 1..Len(s) : s[i] \notin Whitespace}
    IN  IF inked = {} THEN <<>>
        ELSE SubSeq(s, 1, CHOOSE i \in inked : \A j \in inked : i >= j)

\* The name without the variant it ends in and the whitespace before it
WithoutSuffix(name) ==
    IF \E v \in Variants : EndsWith(Lower(name), v)
    THEN LET v == CHOOSE w \in Variants : EndsWith(Lower(name), w)
         IN  RStrip(SubSeq(name, 1, Len(name) - Len(v)))
    ELSE name

\* C4: a name ending, in any case, in a known variant loses exactly that
\* phrase and the whitespace separating it, and nothing else; any other
\* name is unchanged.
NormalizeStripsOnlySuffix ==
    last.op = "normalize_name" => res = WithoutSuffix(arg)

----------------------------------------------------------------------------
(* Properties of the Dash callbacks *)

\* C5: whenever the PST load raises internally, update_output returns the
\* failed status and no data, never the uploaded status.
LoadFailureReported ==
    (last.op = "update_output" /\ last.load_raised) =>
        /\ status = <<Failed>>
        /\ stored_data = <<>>

\* A stored Date cell that parses to a valid timestamp
Parsable(cell) ==
    /\ cell.kind = "datetime"
    /\ \/ cell.day > TsMinDay
       \/ cell.day = TsMinDay /\ cell.minute >= TsMinMinute
    /\ \/ cell.day < TsMaxDay
       \/ cell.day = TsMaxDay /\ cell.minute <= TsMaxMinute

\* Whether a day lies in the period that the label closes
InBin(time_period, label, day) ==
    CASE time_period = "D" -> day = label
      [] time_period = "W" -> label - 6 <= day /\ day <= label
      [] time_period = "M" ->
            /\ day <= label
            /\ \A k \in DOMAIN MonthEnds : MonthEnds[k] < label => MonthEnds[k] < day

\* C7: the bucket counts of update_graphs sum to the number of records
\* whose Date parsed; a row with an unparsable date is counted in no bucket
\* and every parsable row in exactly one.
BucketCountsSum ==
    (graphs # <<>> /\ stored_data # <<>>) =>
        LET g == graphs[1].df_grouped
            tp == graphs[1].time_period
            data == stored_data[1].data
            valid == {i \in 1..Len(data) : Parsable(data[i].Date)}
        IN  /\ SumOfCounts(g) = Cardinality(valid)
            /\ \A i \in valid :
                  Cardinality({b \in 1..Len(g) :
                      InBin(tp, g[b].Date, data[i].Date.day)}) = 1
            /\ \A b \in 1..Len(g) :
                  g[b].Count = Cardinality({i \in valid :
                      InBin(tp, g[b].Date, data[i].Date.day)})

\* Weekly buckets over a table with an unparsable date, two parsable ones
\* and an empty week between them
BucketCountsSumWitness ==
    /\ graphs # <<>> /\ stored_data # <<>>
    /\ graphs[1].time_period = "W"
    /\ \E i \in 1..Len(stored_data[1].data) :
          ~Parsable(stored_data[1].data[i].Date)
    /\ SumOfCounts(graphs[1].df_grouped) = 2
    /\ \E b \in 1..Len(graphs[1].df_grouped) :
          graphs[1].df_grouped[b].Count = 0

\* C8: the y-axis limit for a largest bucket of m >= 0 rows is at least 20,
\* at least m + 10 and at most max(20, m + 10, 1.2 m) (in tenths).
YAxisWithinBounds ==
    last.op = "yaxis_upper_limit" =>
        /\ res >= 200
        /\ res >= 10 * (arg + 10)
        /\ \/ res <= 200
           \/ res <= 10 * (arg + 10)
           \/ res <= 12 * arg

\* A count for which the proportional term decides: 1.2 * 60 = 72
YAxisWithinBoundsWitness ==
    /\ last.op = "yaxis_upper_limit"
    /\ arg = 60
    /\ res = 720

====
